---- MODULE Spec2Model ----
(***************************************************************************)
(* Transcript normalisation of the Digital Ocean AI proxy.                 *)
(*                                                                         *)
(* Two implementations of normalizeChatCompletionsMessages are modelled:   *)
(*   "A"  the phase-based one  (src/unnamed/part_001, lines 130-602)       *)
(*   "B"  the step-based one   (src/unnamed/part_001, lines 1143-1454)     *)
(*                                                                         *)
(* A JavaScript string is a sequence of tokens.  The tokens " " and "\n"   *)
(* are runs of whitespace; every other token is a piece of text without    *)
(* leading or trailing whitespace.  s.trim().length === 0 is therefore     *)
(* "every token is whitespace", and a + b is a \o b.                       *)
(*                                                                         *)
(* A content value is a record [kind, s, blocks]: kind "null" (null or     *)
(* undefined), "str" (a string, in s) or "arr" (a block array, in blocks). *)
(* A message keeps role, content, tool_calls (has_tc tells whether the     *)
(* field is an array at all) and tool_call_id ("" when missing, not a      *)
(* string, or empty: the code treats the three alike).                     *)
(***************************************************************************)
EXTENDS Integers, Sequences, FiniteSets, TLC

MaxLen == 3
MaxCalls == 2

WS == {" ", "\n"}

\* ------------------------------------------------------------------------
\* Strings
\* ------------------------------------------------------------------------
IsBlank(s) == \A i \in 1..Len(s) : s[i] \in WS

RECURSIVE TrimLeft(_)
TrimLeft(s) == IF s = <<>> THEN <<>>
               ELSE IF Head(s) \in WS THEN TrimLeft(Tail(s)) ELSE s

RECURSIVE TrimRight(_)
TrimRight(s) == IF s = <<>> THEN <<>>
                ELSE IF s[Len(s)] \in WS THEN TrimRight(SubSeq(s, 1, Len(s) - 1)) ELSE s

Trim(s) == TrimRight(TrimLeft(s))

RECURSIVE Join(_, _)
Join(parts, sep) == IF parts = <<>> THEN <<>>
                    ELSE IF Len(parts) = 1 THEN parts[1]
                    ELSE parts[1] \o sep \o Join(Tail(parts), sep)

Includes(s, t) == \E i \in 0..(Len(s) - Len(t)) : SubSeq(s, i + 1, i + Len(t)) = t

\* ------------------------------------------------------------------------
\* Values
\* ------------------------------------------------------------------------
Null == [kind |-> "null", s |-> <<>>, blocks |-> <<>>]
Str(t) == [kind |-> "str", s |-> t, blocks |-> <<>>]
Arr(bs) == [kind |-> "arr", s |-> <<>>, blocks |-> bs]

TextBlock(t) == [type |-> "text", text |-> t, id |-> "", url |-> ""]
ImageBlock == [type |-> "image", text |-> <<>>, id |-> "", url |-> ""]
ImageUrlBlock(u) == [type |-> "image_url", text |-> <<>>, id |-> "", url |-> u]
ToolUseBlock(i) == [type |-> "tool_use", text |-> <<>>, id |-> i, url |-> ""]
ToolResultBlock(i, t) == [type |-> "tool_result", text |-> t, id |-> i, url |-> ""]

Call(i) == [id |-> i, name |-> "Read", args |-> "json"]

Msg(r, c) == [role |-> r, content |-> c, has_tc |-> FALSE, tool_calls |-> <<>>,
              tool_call_id |-> ""]
AssistantCalls(c, tcs) == [role |-> "assistant", content |-> c, has_tc |-> TRUE,
                           tool_calls |-> tcs, tool_call_id |-> ""]
ToolMsg(i, c) == [role |-> "tool", content |-> c, has_tc |-> FALSE, tool_calls |-> <<>>,
                  tool_call_id |-> i]
NonObject == Msg("#nonobject", Null)

HasToolCalls(m) == m.has_tc /\ Len(m.tool_calls) > 0

RECURSIVE MapSeq(_, _)
MapSeq(F(_), s) == IF s = <<>> THEN <<>> ELSE <<F(Head(s))>> \o MapSeq(F, Tail(s))

RECURSIVE Filter(_, _)
Filter(P(_), s) == IF s = <<>> THEN <<>>
                   ELSE IF P(Head(s)) THEN <<Head(s)>> \o Filter(P, Tail(s))
                   ELSE Filter(P, Tail(s))

\* ------------------------------------------------------------------------
\* Implementation A: content helpers
\* ------------------------------------------------------------------------
BlockTexts(bs) == MapSeq(LAMBDA b : b.text, bs)

contentToString(c) ==
  IF c.kind = "str" THEN c.s
  ELSE IF c.kind = "null" THEN <<>>
  ELSE Join(BlockTexts(Filter(LAMBDA b : b.type \notin {"tool_use", "tool_result"},
                              c.blocks)), <<>>)

isContentEmpty(c) ==
  IF c.kind = "null" THEN TRUE
  ELSE IF c.kind = "str" THEN IsBlank(c.s)
  ELSE \A i \in 1..Len(c.blocks) :
          c.blocks[i].type = "text" /\ IsBlank(c.blocks[i].text)

SanitiseKeep(b) == IF b.type = "text" THEN ~IsBlank(b.text) ELSE TRUE

sanitiseContent(c) ==
  IF c.kind = "null" THEN Null
  ELSE IF c.kind = "str" THEN (IF ~IsBlank(c.s) THEN c ELSE Null)
  ELSE LET cleaned == Filter(SanitiseKeep, c.blocks) IN
       IF cleaned = <<>> THEN Null
       ELSE IF \A i \in 1..Len(cleaned) : cleaned[i].type = "text"
            THEN Str(Join(BlockTexts(cleaned), <<>>))
            ELSE Arr(cleaned)

\* ------------------------------------------------------------------------
\* Implementation A, PHASE 1: clone messages and normalise content
\* ------------------------------------------------------------------------
StructuralTypes == {"tool_use", "tool_result", "image", "image_url"}

Phase1Msg(m) ==
  IF m.content.kind = "arr"
  THEN IF \E i \in 1..Len(m.content.blocks) : m.content.blocks[i].type \in StructuralTypes
       THEN m
       ELSE [m EXCEPT !.content = Str(contentToString(m.content))]
  ELSE m

Phase1A(raw) == MapSeq(Phase1Msg, Filter(LAMBDA m : m.role # "#nonobject", raw))

\* ------------------------------------------------------------------------
\* Implementation A, PHASE 2: the ledger toolResultsById.  A JavaScript Map
\* iterates in insertion order of its keys, so the ledger is a sequence of
\* [id, bucket] entries.
\* ------------------------------------------------------------------------
LedgerIndex(led, id) ==
  IF \E i \in 1..Len(led) : led[i].id = id
  THEN CHOOSE i \in 1..Len(led) : led[i].id = id
  ELSE 0

Bucket(led, id) == IF LedgerIndex(led, id) = 0 THEN <<>> ELSE led[LedgerIndex(led, id)].bucket


\* stash with the new entry put in front of its bucket
stash_Unshift(led, id, entry) ==
  IF LedgerIndex(led, id) = 0
  THEN Append(led, [id |-> id, bucket |-> <<entry>>])
  ELSE [led EXCEPT ![LedgerIndex(led, id)].bucket = <<entry>> \o @]

stash(led, id, entry) ==
  IF LedgerIndex(led, id) = 0
  THEN Append(led, [id |-> id, bucket |-> <<entry>>])
  ELSE [led EXCEPT ![LedgerIndex(led, id)].bucket = Append(@, entry)]

\* bucket.shift(), then toolResultsById.delete(id) once the bucket is empty
shiftBucket(led, id) ==
  LET k == LedgerIndex(led, id) IN
  IF Len(led[k].bucket) = 1
  THEN SubSeq(led, 1, k - 1) \o SubSeq(led, k + 1, Len(led))
  ELSE [led EXCEPT ![k].bucket = Tail(@)]

RECURSIVE StashBlocks(_, _)
StashBlocks(led, bs) ==
  IF bs = <<>> THEN led
  ELSE LET b == Head(bs) IN
       IF b.type = "tool_result" /\ b.id # ""
       THEN StashBlocks(stash(led, b.id, ToolMsg(b.id, Str(b.text))), Tail(bs))
       ELSE StashBlocks(led, Tail(bs))

RECURSIVE Phase2A(_, _)
Phase2A(led, msgs) ==
  IF msgs = <<>> THEN led
  ELSE LET m == Head(msgs) IN
       IF m.role = "tool" /\ m.tool_call_id # ""
       THEN Phase2A(stash(led, m.tool_call_id, m), Tail(msgs))
       ELSE IF m.role = "user" /\ m.content.kind = "arr"
       THEN Phase2A(StashBlocks(led, m.content.blocks), Tail(msgs))
       ELSE Phase2A(led, Tail(msgs))

\* ------------------------------------------------------------------------
\* Implementation A, PHASE 3: rebuild the sequence with tool pairing
\* ------------------------------------------------------------------------
\* PairCallsA with a call of unknown result kept instead of dropped
RECURSIVE PairCallsA_KeepUnmatched(_, _)
PairCallsA_KeepUnmatched(st, calls) ==
  IF calls = <<>> THEN st
  ELSE LET tc == Head(calls) IN
       IF tc.id = "" THEN PairCallsA_KeepUnmatched(st, Tail(calls))
       ELSE IF Bucket(st.led, tc.id) = <<>>
       THEN PairCallsA_KeepUnmatched([st EXCEPT !.valid = Append(@, tc)], Tail(calls))
       ELSE PairCallsA_KeepUnmatched(
              [led |-> shiftBucket(st.led, tc.id),
               valid |-> Append(st.valid, tc),
               paired |-> Append(st.paired, Head(Bucket(st.led, tc.id)))],
              Tail(calls))

\* the loop over m.tool_calls (or over the tool_use blocks): st = [led, valid, paired]
RECURSIVE PairCallsA(_, _)
PairCallsA(st, calls) ==
  IF calls = <<>> THEN st
  ELSE LET tc == Head(calls) IN
       IF tc.id = "" \/ Bucket(st.led, tc.id) = <<>>
       THEN PairCallsA(st, Tail(calls))
       ELSE PairCallsA([led |-> shiftBucket(st.led, tc.id),
                        valid |-> Append(st.valid, tc),
                        paired |-> Append(st.paired, Head(Bucket(st.led, tc.id)))],
                       Tail(calls))

IsToolResult(b) == b.type = "tool_result"
IsToolUse(b) == b.type = "tool_use"
NotToolResult(b) == b.type # "tool_result"
NotToolUse(b) == b.type # "tool_use"

\* the user branch: strip tool_result blocks from mixed content
StripToolResults(m) ==
  LET cleaned == Filter(NotToolResult, m.content.blocks) IN
  IF Len(cleaned) = Len(m.content.blocks) THEN m
  ELSE IF \A i \in 1..Len(cleaned) : cleaned[i].type = "text"
       THEN [m EXCEPT !.content = Str(Join(BlockTexts(cleaned), <<>>))]
       ELSE [m EXCEPT !.content = Arr(cleaned)]


\* AssistantCallsOutA that leaves tool_calls in place when no call is valid
AssistantCallsOutA_KeepField(m, valid) ==
  IF Len(valid) > 0
  THEN [m EXCEPT !.tool_calls = valid,
                 !.content = IF isContentEmpty(m.content) THEN Null ELSE m.content]
  ELSE [m EXCEPT !.content = IF isContentEmpty(m.content)
                             THEN Str(<<"(tool calls removed - no matching results)">>)
                             ELSE m.content]

AssistantCallsOutA(m, valid) ==
  IF Len(valid) > 0
  THEN [m EXCEPT !.tool_calls = valid,
                 !.content = IF isContentEmpty(m.content) THEN Null ELSE m.content]
  ELSE [m EXCEPT !.has_tc = FALSE, !.tool_calls = <<>>,
                 !.content = IF isContentEmpty(m.content)
                             THEN Str(<<"(tool calls removed - no matching results)">>)
                             ELSE m.content]

AssistantBlocksOutA(m, validBlocks) ==
  LET newContent == Filter(NotToolUse, m.content.blocks) \o validBlocks IN
  [m EXCEPT !.content = IF newContent = <<>> THEN Null ELSE Arr(newContent)]

\* st = [led, out]
RECURSIVE Phase3A(_, _)
Phase3A(st, msgs) ==
  IF msgs = <<>> THEN st
  ELSE
    LET m0 == Head(msgs)
        rest == Tail(msgs)
        userArr == m0.role = "user" /\ m0.content.kind = "arr"
        m == IF userArr THEN StripToolResults(m0) ELSE m0
    IN
    IF m0.role = "tool" THEN Phase3A(st, rest)
    ELSE IF userArr /\ (\A i \in 1..Len(m0.content.blocks) : IsToolResult(m0.content.blocks[i]))
    THEN Phase3A(st, rest)
    ELSE IF m.role = "assistant" /\ HasToolCalls(m)
    THEN LET p == PairCallsA([led |-> st.led, valid |-> <<>>, paired |-> <<>>], m.tool_calls)
         IN Phase3A([led |-> p.led,
                     out |-> st.out \o <<AssistantCallsOutA(m, p.valid)>> \o p.paired], rest)
    ELSE IF m.role = "assistant" /\ m.content.kind = "arr"
            /\ Filter(IsToolUse, m.content.blocks) # <<>>
    THEN LET p == PairCallsA([led |-> st.led, valid |-> <<>>, paired |-> <<>>],
                             Filter(IsToolUse, m.content.blocks))
         IN Phase3A([led |-> p.led,
                     out |-> st.out \o <<AssistantBlocksOutA(m, p.valid)>> \o p.paired], rest)
    ELSE Phase3A([led |-> st.led, out |-> Append(st.out, m)], rest)

\* ------------------------------------------------------------------------
\* Implementation A, PHASE 4: leftover results become user messages
\* ------------------------------------------------------------------------

\* OrphanUserA that never copies the result's text
OrphanUserA_NoText(id, orphan) ==
  Msg("user", Str(<<"[Tool", " ", id, " ", "returned no output]">>))

OrphanUserA(id, orphan) ==
  LET c == IF orphan.content.kind = "str" THEN orphan.content.s ELSE <<>> IN
  Msg("user", Str(IF ~IsBlank(c)
                  THEN <<"[Tool output for", " ", id, "]:", "\n">> \o c
                  ELSE <<"[Tool", " ", id, " ", "returned no output]">>))

RECURSIVE Phase4A(_)
Phase4A(led) ==
  IF led = <<>> THEN <<>>
  ELSE LET id == Head(led).id IN
       MapSeq(LAMBDA o : OrphanUserA(id, o), Head(led).bucket) \o Phase4A(Tail(led))

\* ------------------------------------------------------------------------
\* Implementation A, PHASE 5: sanitise every message's content
\* ------------------------------------------------------------------------
SanitiseOrDot(c) == IF sanitiseContent(c) = Null THEN Str(<<".">>) ELSE sanitiseContent(c)


\* Phase5Msg with the test on a tool result's content inverted
Phase5Msg_ToolInverted(m) ==
  IF m.role = "tool"
  THEN IF m.content.kind = "str" /\ ~IsBlank(m.content.s)
       THEN [m EXCEPT !.content = Str(<<"(empty tool output)">>)]
       ELSE m
  ELSE IF m.role = "assistant" /\ HasToolCalls(m)
  THEN IF m.content.kind = "str" /\ IsBlank(m.content.s)
       THEN [m EXCEPT !.content = Null]
       ELSE IF m.content.kind = "arr"
       THEN [m EXCEPT !.content = sanitiseContent(m.content)]
       ELSE m
  ELSE [m EXCEPT !.content = SanitiseOrDot(m.content)]

Phase5Msg(m) ==
  IF m.role = "tool"
  THEN IF m.content.kind # "str" \/ IsBlank(m.content.s)
       THEN [m EXCEPT !.content = Str(<<"(empty tool output)">>)]
       ELSE m
  ELSE IF m.role = "assistant" /\ HasToolCalls(m)
  THEN IF m.content.kind = "str" /\ IsBlank(m.content.s)
       THEN [m EXCEPT !.content = Null]
       ELSE IF m.content.kind = "arr"
       THEN [m EXCEPT !.content = sanitiseContent(m.content)]
       ELSE m
  ELSE [m EXCEPT !.content = SanitiseOrDot(m.content)]

Phase5A(msgs) == MapSeq(Phase5Msg, msgs)

\* ------------------------------------------------------------------------
\* Implementation A, PHASE 6: remove dead weight
\* ------------------------------------------------------------------------
Phase6Keep(m) ==
  \/ m.role = "tool"
  \/ m.role = "assistant" /\ HasToolCalls(m)
  \/ m.role = "system"
  \/ m.content.kind = "arr" /\ Len(m.content.blocks) > 0
  \/ m.content.kind = "str" /\ ~IsBlank(m.content.s)

Phase6A(msgs) == Filter(Phase6Keep, msgs)

\* ------------------------------------------------------------------------
\* Implementation A, PHASE 7: merge consecutive same-role messages
\* ------------------------------------------------------------------------
BlankLine == <<"\n", "\n">>

\* the later text put before the earlier one
MergeInto_Prepend(acc, m) ==
  [acc EXCEPT ![Len(acc)].content = Str(m.content.s \o BlankLine \o acc[Len(acc)].content.s)]

MergeInto(acc, m) ==
  [acc EXCEPT ![Len(acc)].content = Str(acc[Len(acc)].content.s \o BlankLine \o m.content.s)]

BothStrings(prev, m) == m.content.kind = "str" /\ prev.content.kind = "str"

MergeableUsersA(prev, m) == m.role = "user" /\ prev.role = "user" /\ BothStrings(prev, m)

MergeableAssistantsA(prev, m) ==
  /\ m.role = "assistant" /\ prev.role = "assistant"
  /\ ~m.has_tc /\ ~prev.has_tc
  /\ BothStrings(prev, m)

Phase7Step(merged, m) ==
  IF merged = <<>> THEN <<m>>
  ELSE LET prev == merged[Len(merged)] IN
       IF MergeableUsersA(prev, m) \/ MergeableAssistantsA(prev, m) THEN MergeInto(merged, m)
       ELSE IF m.role = "assistant" /\ prev.role = "assistant"
       THEN merged \o <<Msg("user", Str(<<"Continue.">>)), m>>
       ELSE IF m.role = "user" /\ prev.role = "user"
       THEN merged \o <<Msg("assistant", Str(<<"Understood.">>)), m>>
       ELSE IF m.role = "tool" /\ prev.role = "user"
       THEN merged \o <<Msg("assistant", Str(<<"Processing...">>)), m>>
       ELSE Append(merged, m)

RECURSIVE FoldLeft(_, _, _)
FoldLeft(F(_, _), acc, s) == IF s = <<>> THEN acc ELSE FoldLeft(F, F(acc, Head(s)), Tail(s))

Phase7A(msgs) == FoldLeft(Phase7Step, <<>>, msgs)

\* ------------------------------------------------------------------------
\* Implementation A, PHASE 8: the first non-system message must be user
\* ------------------------------------------------------------------------
FirstNonSystem(msgs) ==
  IF \E i \in 1..Len(msgs) : msgs[i].role # "system"
  THEN CHOOSE i \in 1..Len(msgs) :
         msgs[i].role # "system" /\ \A j \in 1..(i - 1) : msgs[j].role = "system"
  ELSE 0


\* Phase8A with the role test inverted: the filler goes before a user message
Phase8A_Inverted(msgs) ==
  LET k == FirstNonSystem(msgs) IN
  IF k > 0 /\ msgs[k].role = "user"
  THEN SubSeq(msgs, 1, k - 1) \o <<Msg("user", Str(<<"Go ahead.">>))>> \o SubSeq(msgs, k, Len(msgs))
  ELSE msgs

Phase8A(msgs) ==
  LET k == FirstNonSystem(msgs) IN
  IF k > 0 /\ msgs[k].role # "user"
  THEN SubSeq(msgs, 1, k - 1) \o <<Msg("user", Str(<<"Go ahead.">>))>> \o SubSeq(msgs, k, Len(msgs))
  ELSE msgs

\* ------------------------------------------------------------------------
\* Implementation A, PHASE 9: final validation of tool results
\* ------------------------------------------------------------------------
\* index of the nearest preceding assistant, skipping tool results; 0 if none
RECURSIVE PrevAssistant(_, _)
PrevAssistant(validated, j) ==
  IF j = 0 THEN 0
  ELSE IF validated[j].role = "assistant" THEN j
  ELSE IF validated[j].role = "tool" THEN PrevAssistant(validated, j - 1)
  ELSE 0

hasMatchingCall(a, id) ==
  \/ a.has_tc /\ \E k \in 1..Len(a.tool_calls) : a.tool_calls[k].id = id
  \/ a.content.kind = "arr"
       /\ \E k \in 1..Len(a.content.blocks) :
             a.content.blocks[k].type = "tool_use" /\ a.content.blocks[k].id = id

DemoteToolA(m) ==
  Msg("user", Str(IF m.content.kind = "str" /\ ~IsBlank(m.content.s)
                  THEN <<"[Tool output]:", " ">> \o m.content.s
                  ELSE <<"[Tool returned no output]">>))

\* Phase9Step that keeps every tool message as it is
Phase9Step_KeepAll(validated, m) == Append(validated, m)

Phase9Step(validated, m) ==
  IF m.role = "tool"
  THEN LET j == PrevAssistant(validated, Len(validated)) IN
       IF j > 0 /\ hasMatchingCall(validated[j], m.tool_call_id)
       THEN Append(validated, m)
       ELSE Append(validated, DemoteToolA(m))
  ELSE Append(validated, m)

Phase9A(msgs) == FoldLeft(Phase9Step, <<>>, msgs)

\* ------------------------------------------------------------------------
\* Implementation A, PHASE 10: one more merge pass, and the final assignment
\* ------------------------------------------------------------------------
Phase10Step(final, m) ==
  IF final = <<>> THEN <<m>>
  ELSE LET prev == final[Len(final)] IN
       IF MergeableUsersA(prev, m) \/ MergeableAssistantsA(prev, m) THEN MergeInto(final, m)
       ELSE IF m.role = prev.role /\ m.role = "user"
       THEN final \o <<Msg("assistant", Str(<<"Understood.">>)), m>>
       ELSE IF m.role = prev.role /\ m.role = "assistant"
       THEN final \o <<Msg("user", Str(<<"Continue.">>)), m>>
       ELSE Append(final, m)

Phase10A(msgs) == FoldLeft(Phase10Step, <<>>, msgs)

\* ReorderedA with the converted orphans put in front instead of appended
ReorderedA_OrphansFirst(raw) ==
  LET msgs == Phase1A(raw)
      p3 == Phase3A([led |-> Phase2A(<<>>, msgs), out |-> <<>>], msgs)
  IN Phase4A(p3.led) \o p3.out

\* the rebuilt sequence after PHASE 3 and PHASE 4
ReorderedA(raw) ==
  LET msgs == Phase1A(raw)
      p3 == Phase3A([led |-> Phase2A(<<>>, msgs), out |-> <<>>], msgs)
  IN p3.out \o Phase4A(p3.led)

\* NormalizeA without the fallback for an empty result
NormalizeA_NoFallback(raw) ==
  Phase10A(Phase9A(Phase8A(Phase7A(Phase6A(Phase5A(ReorderedA(raw)))))))

NormalizeA(raw) ==
  LET final == Phase10A(Phase9A(Phase8A(Phase7A(Phase6A(Phase5A(ReorderedA(raw)))))))
  IN IF Len(final) > 0 THEN final ELSE <<Msg("user", Str(<<".">>))>>

\* ------------------------------------------------------------------------
\* Implementation B: content helpers
\* ------------------------------------------------------------------------
ensureNonEmpty(c, fallback) ==
  IF c.kind = "str" /\ ~IsBlank(c.s) THEN c.s ELSE fallback

TextOnly(b) == IF b.type = "text" THEN b.text ELSE <<>>

toNonEmptyString(c, fallback) ==
  IF c.kind = "str" THEN (IF ~IsBlank(c.s) THEN c.s ELSE fallback)
  ELSE IF c.kind = "null" THEN fallback
  ELSE LET text == Trim(Join(MapSeq(TextOnly, c.blocks), <<>>)) IN
       IF Len(text) > 0 THEN text ELSE fallback

ValidUrls == {"http", "https", "data"}

\* TRUE when convertImageBlock returns a block (and not null)
convertImageBlock(b) == b.type = "image_url" /\ b.url \in ValidUrls

NonBlankText(b) == b.type = "text" /\ ~IsBlank(b.text)
TrimmedText(b) == Trim(b.text)
KeptImage(b) == b.type = "image" \/ convertImageBlock(b)

\* processUserContent that answers in block form whether or not an image
\* survived
processUserContent_AlwaysBlocks(c) ==
  IF c.kind = "str" THEN Str(ensureNonEmpty(c, <<".">>))
  ELSE IF c.kind = "null" THEN Str(ensureNonEmpty(Str(toNonEmptyString(c, <<".">>)), <<".">>))
  ELSE LET textParts == MapSeq(TrimmedText, Filter(NonBlankText, c.blocks))
           blocks == Filter(KeptImage, c.blocks)
           text == Trim(Join(textParts, <<"\n">>))
       IN Arr(<<TextBlock(IF Len(text) > 0 THEN text ELSE <<"See attached image:">>)>>
              \o blocks)

processUserContent(c) ==
  IF c.kind = "str" THEN Str(ensureNonEmpty(c, <<".">>))
  ELSE IF c.kind = "null" THEN Str(ensureNonEmpty(Str(toNonEmptyString(c, <<".">>)), <<".">>))
  ELSE LET textParts == MapSeq(TrimmedText, Filter(NonBlankText, c.blocks))
           blocks == Filter(KeptImage, c.blocks)
           text == Trim(Join(textParts, <<"\n">>))
       IN IF blocks = <<>>
          THEN Str(IF Len(text) > 0 THEN text ELSE <<".">>)
          ELSE Arr(<<TextBlock(IF Len(text) > 0 THEN text ELSE <<"See attached image:">>)>>
                   \o blocks)

processAssistantContent(c) ==
  IF c.kind = "str" THEN (IF ~IsBlank(c.s) THEN c.s ELSE <<"...">>)
  ELSE IF c.kind = "null" THEN <<"...">>
  ELSE LET joined == Trim(Join(BlockTexts(Filter(NonBlankText, c.blocks)), <<"\n">>)) IN
       IF Len(joined) > 0 THEN joined ELSE <<"...">>

\* JSON.stringify of a block array: "[]" for the empty array, and otherwise a
\* text longer than two characters that holds the blocks' texts
RECURSIVE StringifyBlocks(_)
StringifyBlocks(bs) ==
  IF bs = <<>> THEN <<>>
  ELSE <<"{", Head(bs).type, ":">> \o Head(bs).text \o <<"}">> \o StringifyBlocks(Tail(bs))

processToolContent(c) ==
  IF c.kind = "str" /\ ~IsBlank(c.s) THEN c.s
  ELSE IF c.kind = "null" THEN <<"(empty output)">>
  ELSE IF c.kind = "arr"
  THEN (IF c.blocks # <<>> THEN <<"[">> \o StringifyBlocks(c.blocks) \o <<"]">>
        ELSE <<"(empty output)">>)
  ELSE <<"(empty output)">>

\* arguments: "json" a string that parses, "bad" a string that does not,
\* "obj" an object, "" missing or blank
normalizeArgs(a) ==
  IF a = "obj" THEN "json(obj)"
  ELSE IF a = "" THEN "{}"
  ELSE IF a = "bad" THEN "json(raw)"
  ELSE a

\* st = [calls, fresh]: fresh is the supply of generated ids
RECURSIVE normalizeToolCalls(_, _)
normalizeToolCalls(st, toolCalls) ==
  IF toolCalls = <<>> THEN st
  ELSE LET tc == Head(toolCalls)
           name == IF tc.name # "" THEN tc.name ELSE "unknown_tool"
       IN IF tc.id # ""
          THEN normalizeToolCalls(
                 [calls |-> Append(st.calls, [id |-> tc.id, name |-> name,
                                              args |-> normalizeArgs(tc.args)]),
                  fresh |-> st.fresh], Tail(toolCalls))
          ELSE normalizeToolCalls(
                 [calls |-> Append(st.calls, [id |-> Head(st.fresh), name |-> name,
                                              args |-> normalizeArgs(tc.args)]),
                  fresh |-> Tail(st.fresh)], Tail(toolCalls))

\* ------------------------------------------------------------------------
\* Implementation B, STEP 1 and STEP 2
\* ------------------------------------------------------------------------
IsObject(m) == m.role # "#nonobject"
IsSystem(m) == m.role = "system"
NotSystem(m) == m.role # "system"

SystemMsgB(m) == Msg("system", Str(ensureNonEmpty(m.content, <<".">>)))

SystemMsgsB(input) == MapSeq(SystemMsgB, Filter(IsSystem, Filter(IsObject, input)))
NonSystemMsgsB(input) == Filter(NotSystem, Filter(IsObject, input))

\* Map.set: a new key goes last, an existing key keeps its place and gets
\* the new value
mapSet(map, id, v) ==
  IF LedgerIndex(map, id) = 0 THEN Append(map, [id |-> id, content |-> v])
  ELSE [map EXCEPT ![LedgerIndex(map, id)].content = v]

MapHas(map, id) == LedgerIndex(map, id) # 0
MapGet(map, id) == map[LedgerIndex(map, id)].content

RECURSIVE Step2B(_, _)
Step2B(map, msgs) ==
  IF msgs = <<>> THEN map
  ELSE LET m == Head(msgs) IN
       IF m.role = "tool" /\ m.tool_call_id # ""
       THEN Step2B(mapSet(map, m.tool_call_id, processToolContent(m.content)), Tail(msgs))
       ELSE Step2B(map, Tail(msgs))

\* ------------------------------------------------------------------------
\* Implementation B, STEP 3 and STEP 4
\* ------------------------------------------------------------------------
SyntheticResultB == <<"(tool was not executed or result was lost)">>


\* ResultMsgB with an empty string for a missing result
ResultMsgB_Empty(map, tc) ==
  ToolMsg(tc.id, Str(IF MapHas(map, tc.id) THEN MapGet(map, tc.id) ELSE <<>>))

ResultMsgB(map, tc) ==
  ToolMsg(tc.id, Str(IF MapHas(map, tc.id) THEN MapGet(map, tc.id) ELSE SyntheticResultB))

CallIdsOf(calls) == {calls[k].id : k \in 1..Len(calls)}

\* st = [out, used, fresh]
RECURSIVE Step3B(_, _, _)
Step3B(st, map, msgs) ==
  IF msgs = <<>> THEN st
  ELSE LET m == Head(msgs)
           rest == Tail(msgs)
       IN
       IF m.role = "user"
       THEN Step3B([st EXCEPT !.out = Append(@, Msg("user", processUserContent(m.content)))],
                   map, rest)
       ELSE IF m.role = "assistant"
       THEN LET n == normalizeToolCalls([calls |-> <<>>, fresh |-> st.fresh],
                                        IF m.has_tc THEN m.tool_calls ELSE <<>>)
                content == Str(processAssistantContent(m.content))
                assistantMsg == IF Len(n.calls) > 0
                                THEN AssistantCalls(content, n.calls)
                                ELSE Msg("assistant", content)
            IN Step3B([out |-> st.out \o <<assistantMsg>>
                                 \o MapSeq(LAMBDA tc : ResultMsgB(map, tc), n.calls),
                       used |-> st.used \cup CallIdsOf(n.calls),
                       fresh |-> n.fresh], map, rest)
       ELSE Step3B(st, map, rest)

OrphanUserB(e) ==
  Msg("user", Str(<<"[Previous tool output for", " ", e.id, "]:", "\n">> \o e.content))

Step4B(map, used) == MapSeq(OrphanUserB, Filter(LAMBDA e : e.id \notin used, map))

NormalizedB(input, fresh) ==
  LET msgs == NonSystemMsgsB(input)
      map == Step2B(<<>>, msgs)
      s3 == Step3B([out |-> <<>>, used |-> {}, fresh |-> fresh], map, msgs)
  IN s3.out \o Step4B(map, s3.used)

\* ------------------------------------------------------------------------
\* Implementation B, STEP 5 and STEP 6: alternation
\* ------------------------------------------------------------------------
isUserSide(role) == role = "user" \/ role = "tool"

Step5Step(alternated, m) ==
  IF alternated = <<>> THEN <<m>>
  ELSE LET prev == alternated[Len(alternated)] IN
       IF m.role = "tool" /\ prev.role = "assistant" /\ prev.has_tc THEN Append(alternated, m)
       ELSE IF m.role = "tool" /\ prev.role = "tool" THEN Append(alternated, m)
       ELSE IF isUserSide(prev.role) = isUserSide(m.role)
       THEN IF isUserSide(prev.role)
            THEN IF BothStrings(prev, m) /\ prev.role = "user" /\ m.role = "user"
                 THEN MergeInto(alternated, m)
                 ELSE alternated \o <<Msg("assistant", Str(<<"Understood.">>)), m>>
            ELSE IF BothStrings(prev, m) /\ ~prev.has_tc /\ ~m.has_tc
                 THEN MergeInto(alternated, m)
                 ELSE alternated \o <<Msg("user", Str(<<"Continue.">>)), m>>
       ELSE Append(alternated, m)

Step5B(msgs) == FoldLeft(Step5Step, <<>>, msgs)

\* Step6B that never prepends
Step6B_Skip(msgs) == msgs

Step6B(msgs) ==
  IF Len(msgs) > 0 /\ ~isUserSide(msgs[1].role)
  THEN <<Msg("user", Str(<<"Begin.">>))>> \o msgs
  ELSE msgs

\* ------------------------------------------------------------------------
\* Implementation B, STEP 7: final sweep
\* ------------------------------------------------------------------------
Step7UserBlocks(bs) ==
  LET kept == Filter(SanitiseKeep, bs) IN
  IF kept = <<>> THEN Str(<<".">>)
  ELSE IF \E i \in 1..Len(kept) : NonBlankText(kept[i]) THEN Arr(kept)
  ELSE Arr(<<TextBlock(<<".">>)>> \o kept)

Step7Msg(m) ==
  IF m.role = "system"
  THEN IF m.content.kind # "str"
       THEN [m EXCEPT !.content = Str(toNonEmptyString(m.content, <<"You are a helpful assistant.">>))]
       ELSE IF IsBlank(m.content.s)
       THEN [m EXCEPT !.content = Str(<<"You are a helpful assistant.">>)]
       ELSE m
  ELSE IF m.role = "user"
  THEN IF m.content.kind = "str"
       THEN (IF IsBlank(m.content.s) THEN [m EXCEPT !.content = Str(<<".">>)] ELSE m)
       ELSE IF m.content.kind = "arr"
       THEN [m EXCEPT !.content = Step7UserBlocks(m.content.blocks)]
       ELSE [m EXCEPT !.content = Str(toNonEmptyString(m.content, <<".">>))]
  ELSE IF m.role = "assistant"
  THEN LET c == IF m.content.kind # "str"
                THEN toNonEmptyString(m.content, <<"...">>) ELSE m.content.s
       IN [m EXCEPT !.content = Str(IF IsBlank(c) THEN <<"...">> ELSE c)]
  ELSE IF m.role = "tool"
  THEN LET c == IF m.content.kind # "str"
                THEN processToolContent(m.content) ELSE m.content.s
       IN [m EXCEPT !.content = Str(IF IsBlank(c) THEN <<"(empty output)">> ELSE c)]
  ELSE m

Step7B(msgs) == MapSeq(Step7Msg, msgs)

\* ------------------------------------------------------------------------
\* Implementation B, STEP 8 and STEP 9
\* ------------------------------------------------------------------------
Step8B(systemMsgs, alternated) ==
  IF systemMsgs \o alternated = <<>>
  THEN <<Msg("user", Str(<<"Hello.">>))>>
  ELSE systemMsgs \o alternated

ParanoiaFallback(role) ==
  IF role = "tool" THEN <<"(empty)">> ELSE IF role = "assistant" THEN <<"...">> ELSE <<".">>

Step9Msg(m) ==
  IF (m.content.kind = "str" /\ IsBlank(m.content.s)) \/ m.content.kind = "null"
  THEN [m EXCEPT !.content = Str(ParanoiaFallback(m.role))]
  ELSE m

Step9B(msgs) == MapSeq(Step9Msg, msgs)

NormalizeB(input, fresh) ==
  Step9B(Step8B(SystemMsgsB(input), Step7B(Step6B(Step5B(NormalizedB(input, fresh))))))

\* the flag normalizeChatCompletionsMessages returns: set where STEP 3 skips a
\* message of an unknown role or emits a result for a call that has none,
\* where STEP 4 emits an orphan, and wherever STEP 5 to STEP 9 merge, insert
\* or replace (each of those assignments is followed by changed = true)
changedB(input, fresh) ==
  LET msgs == NonSystemMsgsB(input)
      map == Step2B(<<>>, msgs)
      s3 == Step3B([out |-> <<>>, used |-> {}, fresh |-> fresh], map, msgs)
      normalized == s3.out \o Step4B(map, s3.used)
      alternated == Step5B(normalized)
      first == Step6B(alternated)
      swept == Step7B(first)
      final == Step8B(SystemMsgsB(input), swept)
  IN \/ \E i \in 1..Len(msgs) : msgs[i].role \notin {"tool", "user", "assistant"}
     \/ \E i \in 1..Len(s3.out) :
          s3.out[i].role = "tool" /\ ~MapHas(map, s3.out[i].tool_call_id)
     \/ Step4B(map, s3.used) # <<>>
     \/ alternated # normalized
     \/ first # alternated
     \/ swept # first
     \/ SystemMsgsB(input) \o swept = <<>>
     \/ Step9B(final) # final

\* ------------------------------------------------------------------------
\* Transcripts handed to the normaliser
\* ------------------------------------------------------------------------
FreshIds == {"tc_1", "tc_2"}

\* tool calls, their results, and the turns around them
ToolAlphabet ==
  { Msg("user", Str(<<"a">>)),
    Msg("assistant", Str(<<"b">>)),
    AssistantCalls(Str(<<"b">>), <<Call("t1")>>),
    AssistantCalls(Null, <<Call("t1"), Call("t2")>>),
    AssistantCalls(Str(<<>>), <<Call("t2"), Call("t2")>>),
    ToolMsg("t1", Str(<<"r1">>)),
    ToolMsg("t2", Str(<<"r2">>)),
    ToolMsg("t2", Str(<<"r3">>)) }

\* system turns, calls and results without an id, unparsable arguments, blank
\* results
EdgeAlphabet ==
  { Msg("system", Str(<<"s">>)),
    Msg("user", Str(<<"a">>)),
    Msg("assistant", Str(<<"b">>)),
    AssistantCalls(Str(<<"b">>), <<Call("t1")>>),
    AssistantCalls(Str(<<"b">>), <<[Call("") EXCEPT !.args = "bad"]>>),
    ToolMsg("t1", Str(<<"\n">>)),
    ToolMsg("", Str(<<"r4">>)) }

\* string and null contents of every role
ScalarAlphabet ==
  { Msg("system", Str(<<" ">>)),
    Msg("user", Str(<<"a">>)),
    Msg("user", Str(<<" ">>)),
    Msg("user", Null),
    Msg("assistant", Str(<<"b">>)),
    Msg("assistant", Null),
    ToolMsg("t1", Null),
    ToolMsg("t1", Str(<<"r1">>)) }

\* unknown roles, non-object entries, an empty tool_calls array
OddAlphabet ==
  { Msg("user", Str(<<"a">>)),
    Msg("assistant", Str(<<"b">>)),
    AssistantCalls(Str(<<"b">>), <<>>),
    ToolMsg("t1", Str(<<"r1">>)),
    Msg("function", Str(<<"f">>)),
    NonObject }

\* block-array contents: text and images
BlockAlphabet ==
  { Msg("system", Arr(<<TextBlock(<<"s">>)>>)),
    Msg("user", Str(<<"a">>)),
    Msg("user", Arr(<<TextBlock(<<>>), TextBlock(<<"a", " ">>)>>)),
    Msg("user", Arr(<<ImageBlock>>)),
    Msg("user", Arr(<<TextBlock(<<"a">>), ImageUrlBlock("http"), ImageUrlBlock("bad")>>)),
    Msg("assistant", Str(<<"b">>)),
    Msg("assistant", Arr(<<TextBlock(<<>>), TextBlock(<<"b">>)>>)) }

\* block-array contents: tool_use and tool_result blocks
ToolBlockAlphabet ==
  { Msg("user", Str(<<"a">>)),
    Msg("user", Arr(<<ToolResultBlock("t1", <<"r5">>)>>)),
    Msg("assistant", Str(<<"b">>)),
    Msg("assistant", Arr(<<ToolUseBlock("t1")>>)),
    AssistantCalls(Arr(<<TextBlock(<<" ">>)>>), <<Call("t1")>>),
    ToolMsg("t1", Str(<<"r1">>)) }

\* turns with texts of their own, one of them calling a tool
TurnAlphabet ==
  { Msg("user", Str(<<"a">>)),
    Msg("user", Str(<<"c">>)),
    Msg("user", Arr(<<TextBlock(<<"g">>), ToolResultBlock("t1", <<"r5">>)>>)),
    Msg("assistant", Str(<<"b">>)),
    Msg("assistant", Str(<<"d">>)),
    AssistantCalls(Str(<<"e">>), <<Call("t1")>>),
    ToolMsg("t1", Str(<<"r1">>)) }

\* the sequences over S of length at most n
SeqsUpTo(S, n) == UNION {[1..k -> S] : k \in 0..n}

Inputs ==
  UNION {SeqsUpTo(S, MaxLen) :
           S \in {ToolAlphabet, EdgeAlphabet, ScalarAlphabet, OddAlphabet,
                  BlockAlphabet, ToolBlockAlphabet, TurnAlphabet}}

\* number of tool calls without an id: each gets one generated id
RECURSIVE MissingIds(_)
MissingIds(msgs) ==
  IF msgs = <<>> THEN 0
  ELSE Len(Filter(LAMBDA tc : tc.id = "", Head(msgs).tool_calls)) + MissingIds(Tail(msgs))

\* ------------------------------------------------------------------------
\* The state machine: one request body, normalised by one implementation
\* ------------------------------------------------------------------------
VARIABLES impl, input, messages, before, ncalls, reqs

vars == <<impl, input, messages, before, ncalls, reqs>>

Init ==
  /\ impl \in {"A", "B"}
  /\ input \in Inputs
  /\ messages = input
  /\ before = input
  /\ ncalls = 0
  /\ reqs = <<>>

\* normalizeOpenAIChatCompletionsBody(body) with implementation A
NormalizeCallA ==
  /\ impl = "A"
  /\ ncalls < MaxCalls
  /\ messages' = NormalizeA(messages)
  /\ before' = messages
  /\ ncalls' = ncalls + 1
  /\ UNCHANGED <<impl, input, reqs>>

\* normalizeOpenAIChatCompletionsBody(body) with implementation B; the ids
\* built from Date.now() and Math.random() are an arbitrary choice
NormalizeCallB ==
  /\ impl = "B"
  /\ ncalls < MaxCalls
  /\ \E fresh \in [1..MissingIds(messages) -> FreshIds] :
       messages' = NormalizeB(messages, fresh)
  /\ before' = messages
  /\ ncalls' = ncalls + 1
  /\ UNCHANGED <<impl, input, reqs>>

Next == NormalizeCallA \/ NormalizeCallB

Spec == Init /\ [][Next]_vars

\* ------------------------------------------------------------------------
\* The proxy handler: requests in flight, each at one of its await points.
\* impl names the version of the handler: "index" is src/index.ts (no
\* normalisation, one upstream fetch), "A" and "B" are the two versions of
\* createProxyHandler, which normalise and fetch with retries.
\* ------------------------------------------------------------------------
apiKey == "do-key"

inferenceUrl == "https://inference.do-ai.run"

retries == 2

baseDelayMs == 500

retryStatuses == {429, 500, 502, 503, 504}

\* the outcome of a fetch that threw; every other outcome is an HTTP status
Threw == 0

\* what the upstream does with one fetch: it answers with a status that is
\* not retried, with one that is, or the fetch throws
Outcomes == {200, 404, 429, 503, Threw}

\* the retry-after header of an upstream response: absent, or its text as a
\* sequence of characters
RetryAfterHeaders ==
  {[present |-> FALSE, text |-> <<>>],
   [present |-> TRUE, text |-> <<"0">>],
   [present |-> TRUE, text |-> <<"2">>],
   [present |-> TRUE, text |-> <<"2", "s">>]}

DigitValue ==
  ("0" :> 0) @@ ("1" :> 1) @@ ("2" :> 2) @@ ("3" :> 3) @@ ("4" :> 4) @@
  ("5" :> 5) @@ ("6" :> 6) @@ ("7" :> 7) @@ ("8" :> 8) @@ ("9" :> 9)

\* /^\d+$/.test(t)
IsDigits(t) == t # <<>> /\ \A i \in 1..Len(t) : t[i] \in DOMAIN DigitValue

\* Number(t) of a string of digits
RECURSIVE Number(_)
Number(t) ==
  IF t = <<>> THEN 0
  ELSE Number(SubSeq(t, 1, Len(t) - 1)) * 10 + DigitValue[t[Len(t)]]

\* the wait after a retryable status: the backoff whatever the header says
retryDelay_IgnoreHeader(h, attempt) == baseDelayMs * 2^attempt

\* the wait after a retryable status on the given attempt:
\* retryAfterMs ?? baseDelayMs * 2^attempt
retryDelay(h, attempt) ==
  IF h.present /\ h.text # <<>> /\ IsDigits(h.text)
  THEN Number(h.text) * 1000
  ELSE baseDelayMs * 2^attempt

ChatPath == "/v1/chat/completions"

\* bodies as received: no body, text that is not JSON, a JSON object
NoBody == [kind |-> "none", text |-> <<>>, messages |-> <<>>, stream |-> FALSE, max_tokens |-> 0]

TextBody(t) == [NoBody EXCEPT !.kind = "text", !.text = t]

JsonBody(msgs, st) == [NoBody EXCEPT !.kind = "json", !.messages = msgs, !.stream = st]

OrphanTranscript == <<Msg("user", Str(<<"hi">>)), ToolMsg("toolu_orphan", Str(<<"X">>))>>

Request(m, p, b, a) ==
  [method |-> m, path |-> p, raw |-> b, authorization |-> a]

\* the requests a caller sends
Requests ==
  { Request("OPTIONS", ChatPath, NoBody, "Bearer caller-key"),
    Request("GET", "/", NoBody, ""),
    Request("GET", "/v1/models", NoBody, "Bearer caller-key"),
    Request("GET", "/v1/other", NoBody, "Bearer caller-key"),
    Request("POST", ChatPath, JsonBody(OrphanTranscript, FALSE), "Bearer caller-key"),
    Request("POST", ChatPath, JsonBody(<<Msg("user", Str(<<"hi">>))>>, TRUE), ""),
    Request("POST", "/v1//chat/completions/", JsonBody(OrphanTranscript, FALSE), "Bearer caller-key"),
    Request("POST", ChatPath, TextBody(<<"{oops">>), "Bearer caller-key"),
    Request("PUT", "/v1/other", NoBody, "Bearer caller-key") }

\* the requests in flight next to the first one
OtherRequests ==
  { Request("GET", "/v1/models", NoBody, ""),
    Request("POST", ChatPath, JsonBody(<<Msg("user", Str(<<"other">>))>>, FALSE), "Bearer other-key"),
    Request("POST", ChatPath, TextBody(<<"other">>), "Bearer other-key") }

Slots == {"r1", "r2"}

\* JSON.stringify of a string: the text between quotes
QuotedText(t) == <<"\"">> \o t \o <<"\"">>

\* the body handed to fetch by src/index.ts: JSON.stringify(body) whatever body is
WireIndex(body) ==
  IF body.kind = "none" THEN NoBody
  ELSE IF body.kind = "text" THEN TextBody(QuotedText(body.text))
  ELSE body

\* the body handed to fetchWithRetry: a string goes as it is
WireRetry(body) == body

\* max_tokens is set when the body has none: 4096 in A, 8192 in B
DefaultMaxTokens(v) == IF v = "A" THEN 4096 ELSE 8192

\* JSON.parse and what the handler does to the parsed body
ParsedBody(v, path, raw) ==
  IF raw.kind # "json" THEN raw
  ELSE IF v = "index" \/ path # ChatPath THEN raw
  ELSE [raw EXCEPT
          !.messages = IF v = "A" THEN NormalizeA(raw.messages)
                       ELSE NormalizeB(raw.messages, <<>>),
          !.max_tokens = IF raw.max_tokens = 0 THEN DefaultMaxTokens(v) ELSE raw.max_tokens]

HasBodyMethod(m) == m \in {"POST", "PUT", "PATCH"}

\* the upstream request built by a handler that passes the caller's
\* Authorization header on
UpstreamRequest_ForwardAuth(v, rq, body) ==
  [url |-> <<inferenceUrl, rq.path>>,
   method |-> rq.method,
   headers |-> [ContentType |-> "application/json",
                Authorization |-> IF rq.authorization = "" THEN "Bearer " \o apiKey
                                  ELSE rq.authorization],
   body |-> IF v = "index" THEN WireIndex(body) ELSE WireRetry(body)]

\* the upstream request built by the handler
UpstreamRequest(v, rq, body) ==
  [url |-> <<inferenceUrl, rq.path>>,
   method |-> rq.method,
   headers |-> [ContentType |-> "application/json",
                Authorization |-> "Bearer " \o apiKey],
   body |-> IF v = "index" THEN WireIndex(body) ELSE WireRetry(body)]

\* the upstream request of fetchDoModels
ModelsRequest ==
  [url |-> <<inferenceUrl, "/v1/models">>,
   method |-> "GET",
   headers |-> [ContentType |-> "", Authorization |-> "Bearer " \o apiKey],
   body |-> NoBody]

NoUpstream ==
  [url |-> <<>>, method |-> "", headers |-> [ContentType |-> "", Authorization |-> ""],
   body |-> NoBody]

NoResponse == [status |-> 0, kind |-> "none", error |-> ""]

Response(st, k, e) == [status |-> st, kind |-> k, error |-> e]

ProxyError == Response(500, "json", "Proxy error")

\* the state of one call of handleRequest
Start(rq) ==
  [rq |-> rq, pc |-> "start", body |-> NoBody, isStream |-> FALSE, attempt |-> 0,
   last |-> -1, delay |-> 0, retryAfter |-> [present |-> FALSE, text |-> <<>>],
   nsent |-> 0, nthrown |-> 0, up |-> NoUpstream, resp |-> NoResponse]

Done(st, resp) == [st EXCEPT !.pc = "done", !.resp = resp]

\* handleRequest up to its first await
HandleRequestStep(v, st) ==
  LET rq == st.rq IN
  IF rq.method = "OPTIONS" THEN Done(st, Response(204, "empty", ""))
  ELSE IF rq.path = "/" /\ rq.method = "GET" THEN Done(st, Response(200, "json", ""))
  ELSE IF rq.path = "/v1/models" /\ rq.method = "GET"
  THEN IF v = "index" THEN Done(st, Response(200, "json", ""))
       ELSE [st EXCEPT !.pc = "models"]
  ELSE IF HasBodyMethod(rq.method) THEN [st EXCEPT !.pc = "text"]
  ELSE [st EXCEPT !.pc = "fetch"]

\* after await req.text(): parse, normalise, go to the upstream fetch
ReadTextStep(v, st) ==
  LET body == ParsedBody(v, st.rq.path, st.rq.raw) IN
  [st EXCEPT !.pc = "fetch", !.body = body,
             !.isStream = (body.kind = "json" /\ body.stream)]

\* the response is relayed: a stream at once, anything else after its text
\* has been read
Relay(st, status) ==
  IF st.isStream THEN Done(st, Response(status, "stream", ""))
  ELSE [st EXCEPT !.pc = "body", !.resp = Response(status, "json", "")]

\* the single fetch of src/index.ts
FetchStep_Index(st, o) ==
  IF o = Threw THEN Done(st, ProxyError) ELSE Relay(st, o)

\* one pass of the loop of fetchWithRetry, raising where the loop returns the
\* response of the last attempt
FetchStep_Retry_RaiseLast(st, o, h) ==
  IF o = Threw
  THEN IF st.attempt = retries THEN Done(st, ProxyError)
       ELSE [st EXCEPT !.pc = "sleep", !.delay = baseDelayMs * 2^st.attempt]
  ELSE IF o \notin retryStatuses THEN Relay(st, o)
       ELSE IF st.attempt = retries THEN Done(st, ProxyError)
       ELSE [st EXCEPT !.pc = "sleep", !.retryAfter = h,
                       !.delay = retryDelay(h, st.attempt)]

\* one pass of the loop of fetchWithRetry, giving up at the first thrown fetch
FetchStep_Retry_ThrowFirst(st, o, h) ==
  IF o = Threw THEN Done(st, ProxyError)
  ELSE IF o \notin retryStatuses \/ st.attempt = retries THEN Relay(st, o)
       ELSE [st EXCEPT !.pc = "sleep", !.retryAfter = h,
                       !.delay = retryDelay(h, st.attempt)]

\* one pass of the loop of fetchWithRetry
FetchStep_Retry(st, o, h) ==
  IF o = Threw
  THEN IF st.attempt = retries THEN Done(st, ProxyError)
       ELSE [st EXCEPT !.pc = "sleep", !.delay = baseDelayMs * 2^st.attempt]
  ELSE IF o \notin retryStatuses \/ st.attempt = retries THEN Relay(st, o)
       ELSE [st EXCEPT !.pc = "sleep", !.retryAfter = h,
                       !.delay = retryDelay(h, st.attempt)]

\* await fetch(targetUrl, ...) with outcome o
FetchStep(v, st, o, h) ==
  LET sent == [st EXCEPT !.nsent = st.nsent + 1, !.last = o,
                         !.nthrown = st.nthrown + (IF o = Threw THEN 1 ELSE 0),
                         !.up = UpstreamRequest(v, st.rq, st.body)]
  IN IF v = "index" THEN FetchStep_Index(sent, o) ELSE FetchStep_Retry(sent, o, h)

\* after await sleep(delay): the next attempt
SleepStep(st) ==
  [st EXCEPT !.pc = "fetch", !.attempt = st.attempt + 1, !.delay = 0,
             !.retryAfter = [present |-> FALSE, text |-> <<>>]]

\* after await proxyResponse.text()
ReadResponseStep(st) == [st EXCEPT !.pc = "done"]

\* await fetchDoModels(): the remote list, or the fallback list on any failure
FetchModelsStep(st, o) ==
  Done([st EXCEPT !.nsent = st.nsent + 1, !.last = o,
                  !.nthrown = st.nthrown + (IF o = Threw THEN 1 ELSE 0),
                  !.up = ModelsRequest],
       Response(200, "json", ""))

HandlerInit ==
  /\ impl \in {"index", "A", "B"}
  /\ \E rq \in Requests : \E other \in OtherRequests :
       reqs = [r \in Slots |-> IF r = "r1" THEN Start(rq) ELSE Start(other)]
  /\ input = <<>>
  /\ messages = <<>>
  /\ before = <<>>
  /\ ncalls = 0

nvars == <<impl, input, messages, before, ncalls>>

\* body and isStream declared at module level: every call reads the values
\* the first call wrote
Locals_SharedBody(r) ==
  [reqs[r] EXCEPT !.body = reqs["r1"].body, !.isStream = reqs["r1"].isStream]

\* the variables of one call of handleRequest (req, path, body, isStream, the
\* loop counter of fetchWithRetry) are declared inside the function: a call
\* reads and writes its own
Locals(r) == reqs[r]

HandleRequest(r) ==
  /\ reqs[r].pc = "start"
  /\ reqs' = [reqs EXCEPT ![r] = HandleRequestStep(impl, Locals(r))]
  /\ UNCHANGED nvars

ReadText(r) ==
  /\ reqs[r].pc = "text"
  /\ reqs' = [reqs EXCEPT ![r] = ReadTextStep(impl, Locals(r))]
  /\ UNCHANGED nvars

Fetch(r) ==
  /\ reqs[r].pc = "fetch"
  /\ \E o \in Outcomes : \E h \in RetryAfterHeaders :
       reqs' = [reqs EXCEPT ![r] = FetchStep(impl, Locals(r), o, h)]
  /\ UNCHANGED nvars

Sleep(r) ==
  /\ reqs[r].pc = "sleep"
  /\ reqs' = [reqs EXCEPT ![r] = SleepStep(Locals(r))]
  /\ UNCHANGED nvars

ReadResponse(r) ==
  /\ reqs[r].pc = "body"
  /\ reqs' = [reqs EXCEPT ![r] = ReadResponseStep(Locals(r))]
  /\ UNCHANGED nvars

FetchModels(r) ==
  /\ reqs[r].pc = "models"
  /\ \E o \in Outcomes : reqs' = [reqs EXCEPT ![r] = FetchModelsStep(Locals(r), o)]
  /\ UNCHANGED nvars

HandlerNext ==
  \E r \in Slots :
    \/ HandleRequest(r)
    \/ ReadText(r)
    \/ Fetch(r)
    \/ Sleep(r)
    \/ ReadResponse(r)
    \/ FetchModels(r)

HandlerSpec == HandlerInit /\ [][HandlerNext]_vars

\* ------------------------------------------------------------------------
\* The final passes of implementation A (PHASE 9 validation, PHASE 10 merge)
\* applied to any array of messages PHASE 8 can hand over in shape: system,
\* user and assistant turns, tool messages with string content
\* ------------------------------------------------------------------------
MergedAlphabet ==
  { Msg("system", Str(<<"s">>)),
    Msg("user", Str(<<"a">>)),
    AssistantCalls(Str(<<"b">>), <<Call("t1")>>),
    AssistantCalls(Null, <<Call("t1"), Call("t2")>>),
    Msg("assistant", Arr(<<ToolUseBlock("t1")>>)),
    ToolMsg("t1", Str(<<"r1">>)),
    ToolMsg("t2", Str(<<"r2">>)),
    ToolMsg("t1", Str(<<"\n">>)) }

FinalPassInit ==
  /\ impl = "A"
  /\ input \in SeqsUpTo(MergedAlphabet, MaxLen)
  /\ messages = input
  /\ before = input
  /\ ncalls = 0
  /\ reqs = <<>>

\* PHASE 9 and PHASE 10 on the array merged
FinalPassCall ==
  /\ ncalls = 0
  /\ messages' = Phase10A(Phase9A(messages))
  /\ before' = messages
  /\ ncalls' = 1
  /\ UNCHANGED <<impl, input, reqs>>

FinalPassNext == FinalPassCall

FinalPassSpec == FinalPassInit /\ [][FinalPassNext]_vars

\* ------------------------------------------------------------------------
\* Vocabulary of the properties
\* ------------------------------------------------------------------------
Normalized == ncalls >= 1

NonEmptyContent(c) ==
  \/ c.kind = "str" /\ ~IsBlank(c.s)
  \/ c.kind = "arr" /\ \E i \in 1..Len(c.blocks) : NonBlankText(c.blocks[i])

IsToolMsg(m) == m.role = "tool"
IsCallingAssistant(m) == m.role = "assistant" /\ HasToolCalls(m)

\* the n messages after position i are the tool messages of its n tool calls,
\* in order, and the message after them is not a tool message
PairedAt(out, i) ==
  LET n == Len(out[i].tool_calls) IN
  /\ i + n <= Len(out)
  /\ \A k \in 1..n :
       out[i + k].role = "tool" /\ out[i + k].tool_call_id = out[i].tool_calls[k].id
  /\ i + n + 1 <= Len(out) => out[i + n + 1].role # "tool"

Sides == {"user", "tool", "assistant"}

\* adjacent messages of the two sides share a side only when both are tool
Alternates(out) ==
  \A i \in 1..(Len(out) - 1) :
    (out[i].role \in Sides /\ out[i + 1].role \in Sides
       /\ isUserSide(out[i].role) = isUserSide(out[i + 1].role))
    => (out[i].role = "tool" /\ out[i + 1].role = "tool")

\* the tool calls an assistant message makes, in either format
EffectiveCalls(m) ==
  IF m.role # "assistant" THEN <<>>
  ELSE IF HasToolCalls(m) THEN m.tool_calls
  ELSE IF m.content.kind = "arr" THEN Filter(IsToolUse, m.content.blocks)
  ELSE <<>>

CallIdsIn(msgs) ==
  UNION {CallIdsOf(EffectiveCalls(msgs[j])) : j \in 1..Len(msgs)} \ {""}

\* the text a message carries (tool_use and tool_result blocks are not text)
TextOf(m) == contentToString(m.content)

OrphansIn(msgs) ==
  {j \in 1..Len(msgs) : /\ msgs[j].role = "tool"
                        /\ msgs[j].tool_call_id # ""
                        /\ msgs[j].tool_call_id \notin CallIdsIn(msgs)}

UserTextIncludes(out, t) ==
  \E i \in 1..Len(out) :
    out[i].role = "user" /\ out[i].content.kind = "str" /\ Includes(out[i].content.s, t)

NoToolWithId(out, id) ==
  \A i \in 1..Len(out) : out[i].role = "tool" => out[i].tool_call_id # id

IdsOf(cs) == MapSeq(LAMBDA c : c.id, cs)

Count(s, x) == Cardinality({i \in 1..Len(s) : s[i] = x})

Min(a, b) == IF a < b THEN a ELSE b

RECURSIVE AllCalls(_)
AllCalls(msgs) ==
  IF msgs = <<>> THEN <<>> ELSE EffectiveCalls(Head(msgs)) \o AllCalls(Tail(msgs))

OpenAICalls(m) == IF m.role = "assistant" /\ m.has_tc THEN m.tool_calls ELSE <<>>

OpenAICallIdsIn(msgs) == UNION {CallIdsOf(OpenAICalls(msgs[j])) : j \in 1..Len(msgs)} \ {""}

RECURSIVE CountOpenAICalls(_)
CountOpenAICalls(msgs) ==
  IF msgs = <<>> THEN 0 ELSE Len(OpenAICalls(Head(msgs))) + CountOpenAICalls(Tail(msgs))

HasResult(msgs, id) ==
  \E r \in 1..Len(msgs) : msgs[r].role = "tool" /\ msgs[r].tool_call_id = id

\* the results for id in transcript order, in either format
RECURSIVE ResultsOf(_, _)
ResultsOf(msgs, id) ==
  IF msgs = <<>> THEN <<>>
  ELSE LET m == Head(msgs) IN
       (IF m.role = "tool" /\ m.tool_call_id = id THEN <<m.content>>
        ELSE IF m.role = "user" /\ m.content.kind = "arr"
        THEN MapSeq(LAMBDA b : Str(b.text),
                    Filter(LAMBDA b : IsToolResult(b) /\ b.id = id, m.content.blocks))
        ELSE <<>>) \o ResultsOf(Tail(msgs), id)

ToolsWith(out, id) ==
  MapSeq(LAMBDA m : m.content, Filter(LAMBDA m : m.role = "tool" /\ m.tool_call_id = id, out))

\* the contents of the results for id
ResultsFor(msgs, id) == {ResultsOf(msgs, id)[r] : r \in 1..Len(ResultsOf(msgs, id))}

GoodStr(c) == c.kind = "str" /\ ~IsBlank(c.s)

\* some assistant message calls id and the tool message at the call's place
\* after it answers id with a content that satisfies ok
PairedWith(out, id, ok(_)) ==
  \E i \in 1..Len(out) : \E k \in 1..Len(EffectiveCalls(out[i])) :
     /\ EffectiveCalls(out[i])[k].id = id
     /\ i + k <= Len(out)
     /\ out[i + k].role = "tool" /\ out[i + k].tool_call_id = id
     /\ ok(out[i + k].content)

\* every tool message stands in the group that follows the assistant message
\* calling it
ToolsInGroups(out) ==
  \A p \in 1..Len(out) : out[p].role = "tool" =>
    \E i \in 1..(p - 1) :
       /\ p - i <= Len(EffectiveCalls(out[i]))
       /\ EffectiveCalls(out[i])[p - i].id = out[p].tool_call_id

\* all tokens of a transcript in order, messages separated by "|"
RECURSIVE Flat(_)
Flat(out) ==
  IF out = <<>> THEN <<>>
  ELSE (IF Head(out).content.kind = "arr"
        THEN Join(BlockTexts(Head(out).content.blocks), <<>>)
        ELSE Head(out).content.s) \o <<"|">> \o Flat(Tail(out))

Occurs(flat, tok) == \E p \in 1..Len(flat) : flat[p] = tok

FirstPos(flat, tok) ==
  CHOOSE p \in 1..Len(flat) : flat[p] = tok /\ \A q \in 1..(p - 1) : flat[q] # tok

\* message j is marked by the first token of its text when no other message
\* of the transcript holds that token
HasMarker(msgs, j) ==
  /\ TextOf(msgs[j]) # <<>>
  /\ Head(TextOf(msgs[j])) \notin WS
  /\ \A q \in 1..Len(msgs) : q # j => ~Occurs(Flat(<<msgs[q]>>), Head(TextOf(msgs[j])))

Marker(msgs, j) == Head(TextOf(msgs[j]))

Turns == {"user", "assistant", "system"}

Ids == {"t1", "t2"}

NoResultTextA(id) == <<"[Tool", " ", id, " ", "returned no output]">>

EmptyToolOutputA(c) == IF GoodStr(c) THEN c ELSE Str(<<"(empty tool output)">>)

\* ------------------------------------------------------------------------
\* C1: after normalisation every message has non-empty content: never null,
\* never a blank string, never a block array without a non-empty text block.
\* Implementation A breaks it (null content on an assistant message with
\* tool calls, image-only block arrays).
\* ------------------------------------------------------------------------
C1_NoEmptyContent ==
  Normalized => \A i \in 1..Len(messages) : NonEmptyContent(messages[i].content)

\* ------------------------------------------------------------------------
\* C2: every assistant message of the output that carries N tool calls is
\* immediately followed by exactly N tool messages, the k-th of which answers
\* the k-th call.
\* ------------------------------------------------------------------------
C2_PairingComplete ==
  Normalized => \A i \in 1..Len(messages) :
                   IsCallingAssistant(messages[i]) => PairedAt(messages, i)

C2_Witness ==
  /\ Normalized
  /\ impl = "A"
  /\ \E i \in 1..Len(messages) :
       IsCallingAssistant(messages[i]) /\ Len(messages[i].tool_calls) = 2
       /\ PairedAt(messages, i)

\* ------------------------------------------------------------------------
\* C3: with system messages removed, two adjacent messages of the output are
\* on the same side (user and tool against assistant) only when both are
\* tool messages.  Implementation A breaks it.
\* ------------------------------------------------------------------------
C3_SideAlternation ==
  (Normalized /\ impl = "A") => Alternates(Filter(NotSystem, messages))

C7_UnmatchedCallsDropped ==
  (Normalized /\ impl = "A") =>
    LET inCalls == IdsOf(AllCalls(before))
        outCalls == IdsOf(AllCalls(messages))
    IN /\ \A id \in Ids \cup FreshIds :
            /\ Count(outCalls, id) = Min(Count(inCalls, id), Len(ResultsOf(before, id)))
            /\ Len(ToolsWith(messages, id)) = Count(outCalls, id)
       /\ Count(outCalls, "") = 0
       /\ \A i \in 1..Len(messages) :
            (messages[i].has_tc /\ messages[i].tool_calls = <<>>)
              => \E j \in 1..Len(before) : before[j].has_tc /\ before[j].tool_calls = <<>>

\* one call of an assistant message has a result and another has none
C7_Witness ==
  /\ Normalized
  /\ impl = "A"
  /\ \E j \in 1..Len(before) :
       /\ IsCallingAssistant(before[j])
       /\ \E k \in 1..Len(before[j].tool_calls) : HasResult(before, before[j].tool_calls[k].id)
       /\ \E k \in 1..Len(before[j].tool_calls) :
            before[j].tool_calls[k].id # "" /\ ~HasResult(before, before[j].tool_calls[k].id)
  /\ CountOpenAICalls(messages) = 1

C9_Idempotent == ncalls = 2 => messages = before

C9_Witness == ncalls = 2 /\ impl = "A" /\ messages # input /\ Len(messages) >= 3

\* ------------------------------------------------------------------------
\* C10: (implementation A) results with one tool_call_id are used first in,
\* first out: the tool messages with that id in the output are the first n
\* results with that id in input order, n being the smaller of the number of
\* calls and the number of results with that id; the results after the n-th
\* come out as orphans.
\* ------------------------------------------------------------------------
C10_FifoResults ==
  (Normalized /\ impl = "A") =>
    \A id \in Ids :
      LET res == ResultsOf(before, id)
          n == Min(Len(res), Count(IdsOf(AllCalls(before)), id))
      IN /\ ToolsWith(messages, id) = MapSeq(EmptyToolOutputA, SubSeq(res, 1, n))
         /\ \A r \in (n + 1)..Len(res) :
              GoodStr(res[r]) =>
                UserTextIncludes(messages,
                                 <<"[Tool output for", " ", id, "]:", "\n">> \o res[r].s)

\* two results with one id and different contents, one call or two
C10_Witness ==
  /\ Normalized
  /\ impl = "A"
  /\ \E id \in Ids :
       /\ Len(ResultsOf(before, id)) >= 2
       /\ ResultsOf(before, id)[1] # ResultsOf(before, id)[2]
       /\ Count(IdsOf(AllCalls(before)), id) >= 1
       /\ ToolsWith(messages, id) # <<>>
       /\ Head(ToolsWith(messages, id)) = ResultsOf(before, id)[1]

\* ------------------------------------------------------------------------
\* C11: in the output every system message stands before every message of
\* another role, and the output holds as many system messages as the input.
\* Implementation A leaves system messages where they stood.
\* ------------------------------------------------------------------------
C11_SystemFirst ==
  Normalized =>
    /\ \A i \in 1..Len(messages) : \A j \in (i + 1)..Len(messages) :
         messages[j].role = "system" => messages[i].role = "system"
    /\ Len(Filter(IsSystem, messages)) = Len(Filter(IsSystem, before))

\* ------------------------------------------------------------------------
\* C12: the first message of the output that is not a system message is a
\* user or a tool message; when the first non-system message of the input is
\* an assistant message, the output's first non-system message is the
\* synthetic user message and the assistant message follows it.
\* ------------------------------------------------------------------------
C12_FirstIsUserSide ==
  Normalized =>
    LET k == FirstNonSystem(messages)
        j == FirstNonSystem(before)
    IN /\ k > 0 => isUserSide(messages[k].role)
       /\ (j > 0 /\ before[j].role = "assistant") =>
            /\ k > 0 /\ k < Len(messages)
            /\ messages[k] = Msg("user", Str(<<IF impl = "A" THEN "Go ahead." ELSE "Begin.">>))
            /\ messages[k + 1].role = "assistant"

C12_Witness ==
  /\ Normalized
  /\ FirstNonSystem(before) > 1
  /\ before[FirstNonSystem(before)].role = "assistant"
  /\ FirstNonSystem(messages) > 1
  /\ messages[FirstNonSystem(messages)].content = Str(<<"Go ahead.">>)

C19_SystemTextKept ==
  Normalized =>
    \A j \in 1..Len(before) :
      (before[j].role = "system" /\ before[j].content.kind = "arr"
         /\ ~IsBlank(TextOf(before[j]))) =>
        \E i \in 1..Len(messages) :
          /\ messages[i].role = "system"
          /\ messages[i].content.kind = "str"
          /\ Includes(messages[i].content.s, TextOf(before[j]))

\* ------------------------------------------------------------------------
\* C14: (createProxyHandler) a POST to the chat-completions path written
\* with a doubled or a trailing slash is normalised like a POST to
\* /v1/chat/completions (no tool message of the orphan reaches the upstream)
\* and is sent to the upstream's /v1/chat/completions.  The handler compares
\* and forwards the path as written.
\* ------------------------------------------------------------------------
C14_SlashPathHandled ==
  \A r \in Slots :
    (impl \in {"A", "B"} /\ reqs[r].rq.path = "/v1//chat/completions/" /\ reqs[r].nsent > 0) =>
      /\ \A i \in 1..Len(reqs[r].up.body.messages) :
           reqs[r].up.body.messages[i].role # "tool"
      /\ reqs[r].up.url = <<inferenceUrl, ChatPath>>

\* ------------------------------------------------------------------------
\* C15: a body that is not valid JSON is sent upstream as the very text that
\* was received, and the upstream's status is returned.  src/index.ts sends
\* JSON.stringify of the text instead.
\* ------------------------------------------------------------------------
C15_RawBodyForwarded ==
  \A r \in Slots :
    (reqs[r].rq.raw.kind = "text" /\ reqs[r].nsent > 0) =>
      /\ reqs[r].up.body = reqs[r].rq.raw
      /\ (reqs[r].pc = "done" /\ reqs[r].last # Threw) => reqs[r].resp.status = reqs[r].last


\* the requests that go through fetchWithRetry: every route of createProxyHandler
\* but OPTIONS, GET / and GET /v1/models
Proxied(st) ==
  /\ st.rq.method # "OPTIONS"
  /\ ~(st.rq.method = "GET" /\ st.rq.path \in {"/", "/v1/models"})

Retryable == retryStatuses \cup {Threw}

\* C16: fetchWithRetry with retries = 2 sends the upstream request at most 3
\* times; it waits for another attempt only after a retryable status or a
\* thrown fetch; a response with any other status is relayed at once; a
\* retryable status received on the last attempt is relayed with that status
\* and is not turned into a proxy error.
C16_BoundedRetry ==
  impl \in {"A", "B"} =>
    \A r \in Slots :
      LET st == reqs[r] IN
      Proxied(st) =>
        /\ st.nsent <= retries + 1
        /\ st.nsent = (IF st.pc = "fetch" THEN st.attempt ELSE st.attempt + 1)
             \/ st.pc \in {"start", "text"}
        /\ (st.pc = "sleep" \/ (st.pc = "fetch" /\ st.attempt > 0))
             => st.last \in Retryable
        /\ (st.nsent > 0 /\ st.last \notin Retryable)
             => st.pc \in {"body", "done"} /\ st.resp.status = st.last /\ st.resp.error = ""
        /\ (st.nsent = retries + 1 /\ st.last \in retryStatuses)
             => st.pc \in {"body", "done"} /\ st.resp.status = st.last /\ st.resp.error = ""

C16_Witness ==
  /\ impl \in {"A", "B"}
  /\ \E r \in Slots :
       /\ Proxied(reqs[r])
       /\ reqs[r].nsent = retries + 1
       /\ reqs[r].last \in retryStatuses
       /\ reqs[r].pc = "done"
       /\ reqs[r].resp.status = reqs[r].last


\* the number of upstream attempts a handler makes before it gives up
MaxAttempts(v) == IF v = "index" THEN 1 ELSE retries + 1

\* every upstream attempt of the request so far has thrown
AllThrew(st) == st.nsent >= 1 /\ st.nthrown = st.nsent

\* the answer of a request whose upstream attempts all threw: none before the
\* last attempt, the proxy error after it
ProxyErrorAfterLast(v, st) ==
  IF st.nsent = MaxAttempts(v)
  THEN st.pc = "done" /\ st.resp = ProxyError
  ELSE st.pc \in {"sleep", "fetch"} /\ st.resp = NoResponse

\* C17 as stated: whenever every upstream attempt of a request has failed with
\* a transport error, the handler answers 500 "Proxy error" after the last
\* attempt and not earlier.
C17_ProxyErrorAlways ==
  \A r \in Slots : AllThrew(reqs[r]) => ProxyErrorAfterLast(impl, reqs[r])

\* C17: for every request that is proxied (every route but OPTIONS, GET / and
\* GET /v1/models), when every upstream attempt has failed with a transport
\* error the handler answers 500 "Proxy error" after the last attempt and not
\* earlier; GET /v1/models of createProxyHandler answers 200 with the fallback
\* list when its one upstream attempt fails.
C17_ProxyErrorWhenProxied ==
  \A r \in Slots :
    LET st == reqs[r] IN
    AllThrew(st) =>
      IF Proxied(st) THEN ProxyErrorAfterLast(impl, st)
      ELSE st.pc = "done" /\ st.resp = Response(200, "json", "")

C17_Witness ==
  /\ impl \in {"A", "B"}
  /\ \E r \in Slots :
       /\ Proxied(reqs[r])
       /\ reqs[r].nthrown = retries + 1
       /\ reqs[r].nsent = retries + 1
       /\ reqs[r].resp = ProxyError


\* the steps one call can take from st, whatever else is in flight
StepsAlone(v, st) ==
  CASE st.pc = "start" -> {HandleRequestStep(v, st)}
    [] st.pc = "text" -> {ReadTextStep(v, st)}
    [] st.pc = "fetch" -> {FetchStep(v, st, o, h) : o \in Outcomes, h \in RetryAfterHeaders}
    [] st.pc = "sleep" -> {SleepStep(st)}
    [] st.pc = "body" -> {ReadResponseStep(st)}
    [] st.pc = "models" -> {FetchModelsStep(st, o) : o \in Outcomes}
    [] OTHER -> {}

\* C18: in every interleaving of two requests in flight, every step taken at
\* an await point (body read, upstream fetch, retry sleep, response read) takes
\* its request to a state that request reaches from its own state when it is
\* handled alone, and leaves the other request as it was: the body forwarded
\* upstream and the response returned for a request are those of that request
\* handled alone.
C18_Independent ==
  [][\A r \in Slots :
       reqs'[r] # reqs[r] =>
         /\ reqs'[r] \in StepsAlone(impl, reqs[r])
         /\ \A q \in Slots \ {r} : reqs'[q] = reqs[q]]_vars

C18_Witness ==
  /\ impl \in {"A", "B"}
  /\ reqs["r1"].rq.raw.kind = "json" /\ reqs["r2"].rq.raw.kind = "json"
  /\ reqs["r1"].pc = "sleep" /\ reqs["r1"].nsent = 2
  /\ reqs["r2"].pc = "body" /\ reqs["r2"].nsent = 2
  /\ reqs["r1"].up.body # reqs["r2"].up.body


\* C20: every upstream request carries Authorization "Bearer " followed by the
\* configured API key, whatever the inbound request's Authorization header is,
\* and no header of the upstream request has the value of the inbound header.
C20_OwnKeyOnly ==
  \A r \in Slots :
    LET st == reqs[r] IN
    st.nsent > 0 =>
      /\ st.up.headers.Authorization = "Bearer " \o apiKey
      /\ st.rq.authorization # "" =>
           /\ st.up.headers.Authorization # st.rq.authorization
           /\ st.up.headers.ContentType # st.rq.authorization

C20_Witness ==
  \E r \in Slots :
    /\ reqs[r].rq.authorization = "Bearer caller-key"
    /\ Proxied(reqs[r])
    /\ reqs[r].nsent > 0
    /\ reqs[r].up.headers.Authorization = "Bearer do-key"


\* index of the nearest message before p that is not a tool message; 0 if none
RECURSIVE NearestNonTool(_, _)
NearestNonTool(out, p) ==
  IF p <= 1 THEN 0
  ELSE IF out[p - 1].role # "tool" THEN p - 1
  ELSE NearestNonTool(out, p - 1)

\* the tool message at p answers a call of the nearest non-tool message before it
AnswersNearest(out, p) ==
  LET j == NearestNonTool(out, p) IN
  /\ j > 0
  /\ out[j].role = "assistant"
  /\ out[p].tool_call_id \in CallIdsOf(EffectiveCalls(out[j]))

ToolCount(msgs) == Len(Filter(IsToolMsg, msgs))

DemotedTokens == {"[Tool output]:", "[Tool returned no output]"}

DemotedCount(msgs) ==
  Cardinality({p \in 1..Len(Flat(msgs)) : Flat(msgs)[p] \in DemotedTokens})

\* ------------------------------------------------------------------------
\* C21: (implementation A, PHASE 9 and 10) every tool message of the output
\* answers a call of the nearest non-tool message before it, which is an
\* assistant message; every tool message handed to the final pass comes out
\* either as that tool message or as user text "[Tool output]: " followed by
\* its content ("[Tool returned no output]" for a blank content), never both
\* and never as a tool message that answers no call.
\* ------------------------------------------------------------------------
C21_ToolsAnswerNearest ==
  (ncalls = 1 /\ impl = "A") =>
    /\ \A p \in 1..Len(messages) : messages[p].role = "tool" => AnswersNearest(messages, p)
    /\ ToolCount(messages) + DemotedCount(messages) = ToolCount(before)
    /\ \A j \in 1..Len(before) :
         before[j].role = "tool" =>
           \/ \E p \in 1..Len(messages) : messages[p] = before[j]
           \/ IF GoodStr(before[j].content)
              THEN UserTextIncludes(messages, <<"[Tool output]:", " ">> \o before[j].content.s)
              ELSE UserTextIncludes(messages, <<"[Tool returned no output]">>)

\* one tool message kept after its assistant message, one demoted
C21_Witness ==
  /\ ncalls = 1 /\ impl = "A"
  /\ ToolCount(before) >= 2
  /\ ToolCount(messages) >= 1
  /\ DemotedCount(messages) >= 1
  /\ UserTextIncludes(messages, <<"[Tool output]:", " ", "r2">>)


\* the input of the alternation pass: PHASE 7 of A, STEP 5 of B
BeforePhase7A(raw) == Phase6A(Phase5A(ReorderedA(raw)))

SyntheticTexts == {<<"Understood.">>, <<"Continue.">>, <<"Processing...">>}

\* a transcript with the text of every synthetic message replaced by one mark
Shape(msgs) ==
  MapSeq(LAMBDA m : IF m.content.kind = "str" /\ m.content.s \in SyntheticTexts
                    THEN [m EXCEPT !.content = Str(<<"(synthetic)">>)] ELSE m,
         msgs)

SameSide(prev, m) ==
  /\ prev.role \in Sides /\ m.role \in Sides
  /\ isUserSide(prev.role) = isUserSide(m.role)

\* a tool message after a tool message or after an assistant message with calls
PermittedToolRun(prev, m) ==
  m.role = "tool" /\ (prev.role = "tool" \/ IsCallingAssistant(prev))

MergeablePair(prev, m) ==
  /\ BothStrings(prev, m)
  /\ \/ prev.role = "user" /\ m.role = "user"
     \/ /\ prev.role = "assistant" /\ m.role = "assistant"
        /\ ~HasToolCalls(prev) /\ ~HasToolCalls(m)

\* the alternation pass as the claim states it
AlternateStep(acc, m) ==
  IF acc = <<>> THEN <<m>>
  ELSE LET prev == acc[Len(acc)] IN
       IF PermittedToolRun(prev, m) THEN Append(acc, m)
       ELSE IF SameSide(prev, m)
       THEN IF MergeablePair(prev, m)
            THEN [acc EXCEPT ![Len(acc)].content =
                    Str(prev.content.s \o <<"\n", "\n">> \o m.content.s)]
            ELSE acc \o <<Msg(IF isUserSide(m.role) THEN "assistant" ELSE "user",
                              Str(<<"(synthetic)">>)), m>>
       ELSE Append(acc, m)

Alternate(msgs) == FoldLeft(AlternateStep, <<>>, msgs)

\* ------------------------------------------------------------------------
\* C22: the alternation pass merges two adjacent same-side messages exactly
\* when both are user messages with string content or both are assistant
\* messages with string content and without tool calls (first content, blank
\* line, second content); in every other same-side case but the tool runs it
\* keeps both and puts one synthetic message of the opposite side between
\* them.  PHASE 7 of implementation A puts nothing between a tool message and
\* the user message after it.
\* ------------------------------------------------------------------------
C22_AlternationPass ==
  Normalized =>
    /\ impl = "A" =>
         Shape(Phase7A(BeforePhase7A(before))) = Shape(Alternate(BeforePhase7A(before)))
    /\ impl = "B" =>
         \A fresh \in [1..MissingIds(before) -> FreshIds] :
           Shape(Step5B(NormalizedB(before, fresh))) = Shape(Alternate(NormalizedB(before, fresh)))


\* every id of a transcript: ids of tool calls and tool_call_ids of tool messages
IdsIn(msgs) ==
  (CallIdsIn(msgs) \cup {msgs[j].tool_call_id : j \in {q \in 1..Len(msgs) : msgs[q].role = "tool"}})
    \ {""}

RECURSIVE AllOpenAICalls(_)
AllOpenAICalls(msgs) ==
  IF msgs = <<>> THEN <<>> ELSE OpenAICalls(Head(msgs)) \o AllOpenAICalls(Tail(msgs))

\* ------------------------------------------------------------------------
\* C23: a tool call without a usable id is kept: the output has one tool call
\* with a new id for each of them, the new id is not empty, is no id of the
\* input and is the id of no other tool call, and the assistant message that
\* carries it is followed by the tool messages of its calls, that id included.
\* PHASE 3 of implementation A drops such a call.
\* ------------------------------------------------------------------------
C23_FreshIdAssigned ==
  Normalized =>
    LET calls == AllOpenAICalls(messages)
        new == {k \in 1..Len(calls) : calls[k].id \notin IdsIn(before)}
    IN /\ Cardinality(new) = MissingIds(before)
       /\ \A k \in new : calls[k].id # "" /\ Count(IdsOf(calls), calls[k].id) = 1
       /\ \A i \in 1..Len(messages) :
            (IsCallingAssistant(messages[i])
               /\ \E k \in 1..Len(messages[i].tool_calls) :
                     messages[i].tool_calls[k].id \notin IdsIn(before))
              => PairedAt(messages, i)


IsImage(b) == b.type \in {"image", "image_url"}

HasImage(bs) == \E k \in 1..Len(bs) : IsImage(bs[k])

\* ------------------------------------------------------------------------
\* C24: (implementation B) a user message of the output with block-array
\* content holds at least one image block and starts with a text block of
\* non-empty text; every other user message of the output has a non-empty
\* string as content.
\* ------------------------------------------------------------------------
C24_ImageNeedsText ==
  (Normalized /\ impl = "B") =>
    \A i \in 1..Len(messages) :
      messages[i].role = "user" =>
        IF messages[i].content.kind = "arr"
        THEN /\ HasImage(messages[i].content.blocks)
             /\ NonBlankText(messages[i].content.blocks[1])
        ELSE GoodStr(messages[i].content)

\* an image without text got the leading text block, and a user message with
\* a block array without image came out as a string
C24_Witness ==
  /\ Normalized /\ impl = "B"
  /\ \E j \in 1..Len(before) : before[j] = Msg("user", Arr(<<ImageBlock>>))
  /\ \E i \in 1..Len(messages) :
       /\ messages[i].role = "user" /\ messages[i].content.kind = "arr"
       /\ messages[i].content.blocks[1] = TextBlock(<<"See attached image:">>)
  /\ \E j \in 1..Len(before) :
       /\ before[j].role = "user" /\ before[j].content.kind = "arr"
       /\ ~HasImage(before[j].content.blocks)
  /\ \E i \in 1..Len(messages) : messages[i].role = "user" /\ messages[i].content.kind = "str"


\* the tokens of a string that are not whitespace
Words(s) == Filter(LAMBDA t : t \notin WS, s)

\* the text of the text blocks of a block array, joined with newlines
JoinedText(bs) == Join(BlockTexts(Filter(LAMBDA b : b.type = "text", bs)), <<"\n">>)

AssistantPlaceholders ==
  {<<"...">>, <<".">>, <<"(tool calls removed - no matching results)">>}

\* ------------------------------------------------------------------------
\* C25: every assistant message of the output has a string as content, never
\* null and never a block array; an assistant message of the input with
\* block-array content comes out with the text of its text blocks joined
\* with newlines (compared word by word), or with the placeholder when that
\* text is empty.  PHASE 5 of implementation A sets the content of an
\* assistant message with tool calls to null and keeps block arrays that
\* hold tool_use blocks.
\* ------------------------------------------------------------------------
C25_AssistantString ==
  Normalized =>
    /\ \A i \in 1..Len(messages) :
         messages[i].role = "assistant" => messages[i].content.kind = "str"
    /\ \A j \in 1..Len(before) :
         (before[j].role = "assistant" /\ before[j].content.kind = "arr") =>
           \E i \in 1..Len(messages) :
             /\ messages[i].role = "assistant" /\ messages[i].content.kind = "str"
             /\ IF Words(JoinedText(before[j].content.blocks)) = <<>>
                THEN \E ph \in AssistantPlaceholders : Includes(messages[i].content.s, ph)
                ELSE Includes(Words(messages[i].content.s),
                              Words(JoinedText(before[j].content.blocks)))

\* ------------------------------------------------------------------------
\* C26: the wait of fetchWithRetry before it sends again after attempt a
\* (a = 0, 1). After a retryable status: the digits of the retry-after header
\* times 1000 ms when the header is made of digits only ("0" gives a wait of
\* 0 ms, "2" of 2000 ms), and baseDelayMs * 2^a otherwise (500 ms after the
\* first attempt, 1000 ms after the second) when the header is absent or not
\* made of digits. After a thrown fetch: always baseDelayMs * 2^a.
\* ------------------------------------------------------------------------
Backoff(a) == IF a = 0 THEN 500 ELSE IF a = 1 THEN 1000 ELSE 2000

C26_RetryWait ==
  \A r \in Slots :
    LET st == reqs[r] IN
    st.pc = "sleep" =>
      /\ st.attempt \in {0, 1}
      /\ st.delay =
           (IF st.last = Threw THEN Backoff(st.attempt)
            ELSE IF st.retryAfter.present /\ st.retryAfter.text = <<"0">> THEN 0
            ELSE IF st.retryAfter.present /\ st.retryAfter.text = <<"2">> THEN 2000
            ELSE Backoff(st.attempt))

\* the second wait of a request is cut to nothing by retry-after: 0 while its
\* first wait was the backoff after a thrown fetch
C26_Witness ==
  \E r \in Slots :
    /\ reqs[r].pc = "sleep"
    /\ reqs[r].attempt = 1
    /\ reqs[r].nthrown = 1
    /\ reqs[r].last \in retryStatuses
    /\ reqs[r].retryAfter.text = <<"0">>
    /\ reqs[r].delay = 0

\* ------------------------------------------------------------------------
\* C27: no tool result of the input is discarded: the content of every tool
\* message of the input whose content is a non-blank string, also of one with
\* an empty tool_call_id and of one that shares its tool_call_id with another
\* tool message, is the content of a tool message of the output or part of
\* the text of a user message of the output.
\* ------------------------------------------------------------------------
ResultKept(out, c) ==
  \/ \E i \in 1..Len(out) : out[i].role = "tool" /\ out[i].content = c
  \/ UserTextIncludes(out, c.s)

C27_NoResultDiscarded ==
  Normalized =>
    \A j \in 1..Len(before) :
      (before[j].role = "tool" /\ GoodStr(before[j].content))
        => ResultKept(messages, before[j].content)

\* ------------------------------------------------------------------------
\* C28: conversational turns are not reordered: for any two user or
\* assistant messages of the input whose texts are found in the output, the
\* text of the earlier one stands before the text of the later one, in one
\* message or in two.  A message is traced by the first token of its text
\* blocks, a token no other message of the input holds.
\* ------------------------------------------------------------------------
IsTurn(m) == m.role \in {"user", "assistant"}

\* the text of a turn: its string, or the texts of its text blocks
TurnText(m) ==
  IF m.content.kind = "arr"
  THEN Join(BlockTexts(Filter(LAMBDA b : b.type = "text", m.content.blocks)), <<>>)
  ELSE m.content.s

Traced(msgs, j, out) ==
  /\ IsTurn(msgs[j])
  /\ TurnText(msgs[j]) # <<>>
  /\ HasMarker(msgs, j)
  /\ Marker(msgs, j) = Head(TurnText(msgs[j]))
  /\ Occurs(Flat(out), Marker(msgs, j))

C28_TurnsInOrder ==
  Normalized =>
    \A p \in 1..Len(before) : \A q \in (p + 1)..Len(before) :
      (Traced(before, p, messages) /\ Traced(before, q, messages)) =>
        FirstPos(Flat(messages), Marker(before, p))
          < FirstPos(Flat(messages), Marker(before, q))

\* two turns of one role that follow each other in the input and are merged
\* into one message of the output, after an assistant turn that stays apart
C28_Witness ==
  /\ Normalized
  /\ \E p \in 2..(Len(before) - 1) :
       /\ before[p].role = before[p + 1].role
       /\ Traced(before, p - 1, messages)
       /\ Traced(before, p, messages) /\ Traced(before, p + 1, messages)
       /\ \E i \in 1..Len(messages) :
            /\ Occurs(Flat(<<messages[i]>>), Marker(before, p))
            /\ Occurs(Flat(<<messages[i]>>), Marker(before, p + 1))

\* ------------------------------------------------------------------------
\* C29: (implementation B) when the normaliser returns changed = false,
\* body.messages after the call is the array it was given: as many messages,
\* in the same order, with the same roles and contents.
\* ------------------------------------------------------------------------
C29_UnchangedMeansIdentical ==
  (Normalized /\ impl = "B") =>
    \A fresh \in [1..MissingIds(before) -> FreshIds] :
      (messages = NormalizeB(before, fresh) /\ ~changedB(before, fresh))
        => messages = before

\* ------------------------------------------------------------------------
\* C30: body.messages is not empty after normalisation; when no message of
\* the input survives (the array is empty, or holds only entries that are not
\* objects, messages of an unknown role and tool messages without an id),
\* the output is one user message, made up by the normaliser, whose content
\* is a non-blank string.
\* ------------------------------------------------------------------------
KnownRoles == {"system", "user", "assistant", "tool"}

Unsurviving(m) ==
  \/ m = NonObject
  \/ m.role \notin KnownRoles
  \/ m.role = "tool" /\ m.tool_call_id = ""

C30_NeverEmpty ==
  Normalized =>
    /\ Len(messages) >= 1
    /\ (\A j \in 1..Len(before) : Unsurviving(before[j])) =>
         /\ Len(messages) = 1
         /\ messages[1].role = "user"
         /\ GoodStr(messages[1].content)
         /\ messages[1].content.s \in {<<".">>, <<"Hello.">>}
====
